---- MODULE Spec2Model ----
(***************************************************************************)
(* Model of the mcompass firmware's BLE session lifecycle                  *)
(* (Firmware/src/impl/bluetooth_impl.cpp) and GPS duty-cycle controller    *)
(* (Firmware/src/impl/gps_impl.cpp).                                       *)
(*                                                                         *)
(* Tasks: the esp_timer task runs the timer callbacks, the NimBLE host     *)
(* task runs ServerCallbacks / CharacteristicCallbacks, the NMEA parser    *)
(* task runs gps_event_handler, and an application task may call           *)
(* ble_server::deinit.  The code takes no lock, so the statements of a     *)
(* callback interleave with the callbacks of the other tasks.              *)
(***************************************************************************)
EXTENDS Integers, Sequences, FiniteSets, TLC

VARIABLES
  \* ---- bluetooth_impl.cpp ----
  serverEnable,      \* static bool serverEnable
  clientConnected,   \* static bool clientConnected
  connectedCount,    \* pServer->getConnectedCount()
  azimuthHandler,    \* ble_azimuth_dispatcher registered on the event loop
  radioUp,           \* NimBLE stack and BT controller initialised
  advertising,       \* NimBLEDevice advertising running
  tpc,               \* position of the ble_deinit_timer callback
  mpc,               \* position of an application call of ble_server::deinit
  isGPSModel,        \* context.isGPSModel()
  spawnLocation,     \* context.getSpawnLocation()
  savedSpawnLocation,\* preference store copy of the spawn location
  connectSinceFire,  \* history: onConnect ran while the timer callback was running
  row,               \* history: consecutive completed ble_server::deinit calls
  fireCount,         \* history: runs of the ble_deinit_timer callback, up to MaxFires
  sleepDue,          \* seconds until each pending gpsSleepTimer expires, as sleepTimers
  offDue,            \* history: seconds left of the interval armed by the latest fix
  \* ---- gps_impl.cpp ----
  gpsEnPin,          \* level of GPS_EN_PIN ("LOW" = receiver powered)
  gpsSleepInterval,  \* static uint32_t gpsSleepInterval
  sleepTimers,       \* pending gpsSleepTimer one-shot timers, in arming order
  currentLocation,   \* context.getCurrentLocation()
  detectGPS,         \* context.getDetectGPS()
  isGPSFixed,        \* context.getIsGPSFixed()
  nmeaHandler,       \* gps_event_handler registered with the NMEA parser
  dpc,               \* position of the gpsDisableTimer callback
  evt,               \* history: the handler or callback whose step produced this state
  \* ---- bluetooth_impl.cpp, ble_azimuth_dispatcher ----
  now,               \* millis()
  last_update,       \* static uint32_t last_update
  lastNotifyAt,      \* history: millis() of the last pChr->notify(), -1 before the first
  busEvt,            \* history: the bus event whose dispatch produced this state
  \* ---- bluetooth_impl.cpp, CharacteristicCallbacks::onWrite ----
  color,             \* context.getColor()
  savedColor,        \* preference store copy of the pointer color
  brightness,        \* context.getBrightness()
  savedBrightness,   \* preference store copy of the brightness
  pixelBrightness,   \* brightness of the pixel driver
  serverMode,        \* context.getServerMode()
  savedServerMode,   \* preference store copy of the server mode
  lastWrite          \* history: the characteristic write whose step produced this state

bleVars == <<serverEnable, clientConnected, connectedCount, azimuthHandler,
             radioUp, advertising, tpc, mpc, isGPSModel, spawnLocation,
             savedSpawnLocation, connectSinceFire, row>>
gpsVars == <<gpsEnPin, gpsSleepInterval, sleepTimers, currentLocation,
             detectGPS, isGPSFixed, nmeaHandler, dpc, evt>>
azVars == <<now, last_update, lastNotifyAt, busEvt>>
cfgVars == <<color, savedColor, brightness, savedBrightness, pixelBrightness,
             serverMode, savedServerMode, lastWrite>>
timerVars == <<fireCount>>
clockVars == <<sleepDue, offDue>>
vars == <<bleVars, gpsVars, azVars, cfgVars, timerVars, clockVars>>

(***************************************************************************)
(* Bounds of the model.                                                    *)
(***************************************************************************)
MaxPeers == 2
MaxTimers == 2
MaxDist == 310
MaxMillis == 3600
MaxTokenLen == 2
MaxTokens == 2
MaxPayloadLen == 3
MaxBytes == 2
MaxFires == 2

(***************************************************************************)
(* Locations.  Coordinates are whole degrees; the set holds the all-zero   *)
(* value, an in-range value and out-of-range values.                       *)
(***************************************************************************)
Loc(lat, lon) == [latitude |-> lat, longitude |-> lon]
Locations == {Loc(0, 0), Loc(45, 90), Loc(91, 0), Loc(45, 181)}

\* gps::isValidGPSLocation
isValidGPSLocation(location) ==
  /\ location.latitude >= -90 /\ location.latitude <= 90
  /\ location.longitude >= -180 /\ location.longitude <= 180

(***************************************************************************)
(* ble_server::deinit, statement by statement, over the session fields.    *)
(***************************************************************************)
Session == [serverEnable |-> serverEnable, azimuthHandler |-> azimuthHandler,
            radioUp |-> radioUp, advertising |-> advertising]

\* if (!serverEnable || clientConnected) return;
deinit_returns_early(enable, connected) == ~enable \/ connected

\* esp_event_handler_unregister_with(..., ble_azimuth_dispatcher)
deinit_unregister(s) == [s EXCEPT !.azimuthHandler = FALSE]

\* NimBLEDevice::deinit(false); esp_bt_controller_disable(); serverEnable = false
deinit_radio_stale(s) ==
  [s EXCEPT !.serverEnable = s.radioUp, !.radioUp = FALSE, !.advertising = FALSE]
deinit_radio(s) ==
  [s EXCEPT !.serverEnable = FALSE, !.radioUp = FALSE, !.advertising = FALSE]

SetSession(s) ==
  /\ serverEnable' = s.serverEnable
  /\ azimuthHandler' = s.azimuthHandler
  /\ radioUp' = s.radioUp
  /\ advertising' = s.advertising

\* what a caller of deinit can observe of the session
Observable(s) == <<s.serverEnable, s.azimuthHandler, s.radioUp>>

NoRow == [n |-> 0, obs |-> <<FALSE, FALSE, FALSE>>, tore |-> FALSE]
\* bookkeeping on return of an application call of deinit
RowAfterReturn(s, tore) ==
  IF row.n = 0
  THEN [n |-> 1, obs |-> Observable(s), tore |-> tore]
  ELSE [n |-> 2, obs |-> row.obs, tore |-> row.tore \/ tore]

TimerRunning == tpc \in {"policy", "deinit_guard", "unregister", "radio_down"}

(***************************************************************************)
(* ServerCallbacks                                                         *)
(***************************************************************************)
onConnect ==
  /\ radioUp
  /\ connectedCount < MaxPeers
  /\ connectedCount' = connectedCount + 1
  /\ clientConnected' = TRUE
  /\ connectSinceFire' = (connectSinceFire \/ TimerRunning)
  /\ row' = NoRow
  /\ UNCHANGED <<serverEnable, azimuthHandler, radioUp, advertising, tpc, mpc,
                 isGPSModel, spawnLocation, savedSpawnLocation>>
  /\ UNCHANGED <<gpsVars, azVars, cfgVars, timerVars, clockVars>>

onDisconnect ==
  /\ radioUp
  /\ connectedCount > 0
  /\ connectedCount' = connectedCount - 1
  /\ advertising' = TRUE
  /\ row' = NoRow
  /\ UNCHANGED <<serverEnable, clientConnected, azimuthHandler, radioUp, tpc,
                 mpc, isGPSModel, spawnLocation, savedSpawnLocation,
                 connectSinceFire>>
  /\ UNCHANGED <<gpsVars, azVars, cfgVars, timerVars, clockVars>>

(***************************************************************************)
(* CharacteristicCallbacks::onWrite on the spawn characteristic with a     *)
(* payload that parses to `location`.                                      *)
(***************************************************************************)
onWrite_spawn(location) ==
  /\ radioUp
  /\ connectedCount > 0
  /\ savedSpawnLocation' = location
  /\ spawnLocation' = location
  /\ row' = NoRow
  /\ UNCHANGED <<serverEnable, clientConnected, connectedCount, azimuthHandler,
                 radioUp, advertising, tpc, mpc, isGPSModel, connectSinceFire>>
  /\ UNCHANGED <<gpsVars, azVars, cfgVars, timerVars, clockVars>>

(***************************************************************************)
(* The ble_deinit_timer callback armed by ble_server::init.                *)
(***************************************************************************)
\* a periodic timer: a skipped shutdown leaves the timer armed
timer_check_count_periodic ==
  /\ tpc = "armed"
  /\ tpc' = IF connectedCount = 0 THEN "policy" ELSE "armed"
  /\ connectSinceFire' = FALSE
  /\ row' = NoRow
  /\ UNCHANGED <<serverEnable, clientConnected, connectedCount, azimuthHandler,
                 radioUp, advertising, mpc, isGPSModel, spawnLocation,
                 savedSpawnLocation>>
  /\ UNCHANGED <<gpsVars, azVars, cfgVars, clockVars>>
  /\ fireCount' = IF fireCount < MaxFires THEN fireCount + 1 ELSE fireCount
\* esp_timer_start_once: the callback runs once.
\* if (pServer->getConnectedCount() == 0) ... else "Client connected, skip deinit"
timer_check_count ==
  /\ tpc = "armed"
  /\ tpc' = IF connectedCount = 0 THEN "policy" ELSE "skip_connected"
  /\ connectSinceFire' = FALSE
  /\ row' = NoRow
  /\ UNCHANGED <<serverEnable, clientConnected, connectedCount, azimuthHandler,
                 radioUp, advertising, mpc, isGPSModel, spawnLocation,
                 savedSpawnLocation>>
  /\ UNCHANGED <<gpsVars, azVars, cfgVars, clockVars>>
  /\ fireCount' = IF fireCount < MaxFires THEN fireCount + 1 ELSE fireCount

\* if (context.isGPSModel() && !gps::isValidGPSLocation(spawn)) return;
timer_check_policy ==
  /\ tpc = "policy"
  /\ tpc' = IF isGPSModel /\ ~isValidGPSLocation(spawnLocation)
            THEN "skip_policy" ELSE "deinit_guard"
  /\ row' = NoRow
  /\ UNCHANGED <<serverEnable, clientConnected, connectedCount, azimuthHandler,
                 radioUp, advertising, mpc, isGPSModel, spawnLocation,
                 savedSpawnLocation, connectSinceFire>>
  /\ UNCHANGED <<gpsVars, azVars, cfgVars, timerVars, clockVars>>

\* ble_server::deinit(&context): the guard
timer_deinit_guard ==
  /\ tpc = "deinit_guard"
  /\ tpc' = IF deinit_returns_early(serverEnable, clientConnected)
            THEN "deinit_noop" ELSE "unregister"
  /\ row' = NoRow
  /\ UNCHANGED <<serverEnable, clientConnected, connectedCount, azimuthHandler,
                 radioUp, advertising, mpc, isGPSModel, spawnLocation,
                 savedSpawnLocation, connectSinceFire>>
  /\ UNCHANGED <<gpsVars, azVars, cfgVars, timerVars, clockVars>>

timer_deinit_unregister ==
  /\ tpc = "unregister"
  /\ tpc' = "radio_down"
  /\ SetSession(deinit_unregister(Session))
  /\ row' = NoRow
  /\ UNCHANGED <<clientConnected, connectedCount, mpc, isGPSModel,
                 spawnLocation, savedSpawnLocation, connectSinceFire>>
  /\ UNCHANGED <<gpsVars, azVars, cfgVars, timerVars, clockVars>>

timer_deinit_radio ==
  /\ tpc = "radio_down"
  /\ tpc' = "deinit_done"
  /\ SetSession(deinit_radio(Session))
  /\ row' = NoRow
  /\ UNCHANGED <<clientConnected, connectedCount, mpc, isGPSModel,
                 spawnLocation, savedSpawnLocation, connectSinceFire>>
  /\ UNCHANGED <<gpsVars, azVars, cfgVars, timerVars, clockVars>>

(***************************************************************************)
(* ble_server::deinit called by the application task.                      *)
(***************************************************************************)
call_deinit_guard ==
  /\ mpc = "idle"
  /\ IF deinit_returns_early(serverEnable, clientConnected)
     THEN /\ mpc' = "idle"
          /\ row' = RowAfterReturn(Session, FALSE)
     ELSE /\ mpc' = "unregister"
          /\ row' = row
  /\ UNCHANGED <<serverEnable, clientConnected, connectedCount, azimuthHandler,
                 radioUp, advertising, tpc, isGPSModel, spawnLocation,
                 savedSpawnLocation, connectSinceFire>>
  /\ UNCHANGED <<gpsVars, azVars, cfgVars, timerVars, clockVars>>

call_deinit_unregister ==
  /\ mpc = "unregister"
  /\ mpc' = "radio_down"
  /\ SetSession(deinit_unregister(Session))
  /\ row' = row
  /\ UNCHANGED <<clientConnected, connectedCount, tpc, isGPSModel,
                 spawnLocation, savedSpawnLocation, connectSinceFire>>
  /\ UNCHANGED <<gpsVars, azVars, cfgVars, timerVars, clockVars>>

call_deinit_radio ==
  /\ mpc = "radio_down"
  /\ mpc' = "idle"
  /\ SetSession(deinit_radio(Session))
  /\ row' = RowAfterReturn(deinit_radio(Session), TRUE)
  /\ UNCHANGED <<clientConnected, connectedCount, tpc, isGPSModel,
                 spawnLocation, savedSpawnLocation, connectSinceFire>>
  /\ UNCHANGED <<gpsVars, azVars, cfgVars, timerVars, clockVars>>

(***************************************************************************)
(* Initial state: on return from ble_server::init and gps::init.           *)
(***************************************************************************)
InitBle ==
  /\ serverEnable = TRUE
  /\ clientConnected = FALSE
  /\ connectedCount = 0
  /\ azimuthHandler = TRUE
  /\ radioUp = TRUE
  /\ advertising = TRUE
  /\ tpc = "armed"
  /\ mpc = "idle"
  /\ isGPSModel \in BOOLEAN
  /\ spawnLocation \in Locations
  /\ savedSpawnLocation = spawnLocation
  /\ connectSinceFire = FALSE
  /\ row = NoRow
  /\ fireCount = 0

InitGps ==
  /\ gpsEnPin = "LOW"
  /\ gpsSleepInterval = 60 * 60
  /\ sleepTimers = <<>>
  /\ currentLocation = Loc(0, 0)
  /\ detectGPS = FALSE
  /\ isGPSFixed = FALSE
  /\ nmeaHandler = TRUE
  /\ dpc = "armed"
  /\ evt = [kind |-> "none"]
  /\ sleepDue = <<>>
  /\ offDue = 0

NoBusEvt == [type |-> "none", notified |-> FALSE, seq |-> 0]
\* the radio bring-up of ble_server::init ends after the first second of
\* millis(), so the first dispatch is outside the window of last_update = 0
InitAz ==
  /\ now = 1000
  /\ last_update = 0
  /\ lastNotifyAt = -1
  /\ busEvt = NoBusEvt

PointerColor(south, spawn) == [southColor |-> south, spawnColor |-> spawn]
NoWrite == [chr |-> "none"]
InitCfg ==
  /\ color = PointerColor(1, 2)
  /\ savedColor = color
  /\ brightness = 64
  /\ savedBrightness = brightness
  /\ pixelBrightness = brightness
  /\ serverMode = "BLE"
  /\ savedServerMode = serverMode
  /\ lastWrite = NoWrite

Init == InitBle /\ InitGps /\ InitAz /\ InitCfg

TimerSteps ==
  \/ timer_check_count
  \/ timer_check_policy
  \/ timer_deinit_guard
  \/ timer_deinit_unregister
  \/ timer_deinit_radio

NextBle ==
  \/ onConnect
  \/ onDisconnect
  \/ \E location \in Locations : onWrite_spawn(location)
  \/ timer_check_count
  \/ timer_check_policy
  \/ timer_deinit_guard
  \/ timer_deinit_unregister
  \/ timer_deinit_radio
  \/ call_deinit_guard
  \/ call_deinit_unregister
  \/ call_deinit_radio

SpecBle == Init /\ [][NextBle]_vars

\* the esp_timer task runs an expired timer's callback to completion
\* and a call of deinit that passed its guard runs to its end
LiveBle ==
  /\ SpecBle
  /\ WF_vars(TimerSteps)
  /\ WF_vars(call_deinit_unregister \/ call_deinit_radio)

(***************************************************************************)
(* Claims about the BLE session lifecycle.                                 *)
(***************************************************************************)
Disabled == ~serverEnable /\ ~azimuthHandler /\ ~radioUp

\* the spec's reading of an unset location: all-zero or out of range
SpecUnset(location) ==
  \/ (location.latitude = 0 /\ location.longitude = 0)
  \/ location.latitude < -90 \/ location.latitude > 90
  \/ location.longitude < -180 \/ location.longitude > 180

\* C1: when the idle-shutdown timer callback has found zero connected peers
\* and no policy exception, and no peer connected while it ran, the session
\* is Disabled once the callback has returned, whatever onConnect /
\* onDisconnect events came before the timeout.
C1_IdleTimeoutDisables ==
  (tpc \in {"deinit_noop", "deinit_done"} /\ ~connectSinceFire) => Disabled

\* C2: the radio is never torn down while a peer is connected.
C2_NoTeardownWhileConnected ==
  [][(radioUp /\ ~radioUp') => connectedCount = 0]_vars

\* C3: when the idle-shutdown timer callback evaluates the policy exception
\* for a GPS model whose spawn location is unset (all-zero or out of range),
\* it skips the shutdown: serverEnable stays true and the radio stays up.
C3_SkipWhenSpawnUnset ==
  [][(tpc = "policy" /\ tpc' # "policy" /\ isGPSModel /\ SpecUnset(spawnLocation))
       => (tpc' = "skip_policy" /\ serverEnable' = serverEnable /\ radioUp' = radioUp)]_vars

\* C4: if the idle shutdown was skipped for an unset spawn location, then
\* once a valid spawn location is set and no peer is connected the session
\* eventually becomes Disabled.
C4_ShutdownAfterSpawnSet ==
  (tpc = "skip_policy" /\ ~SpecUnset(spawnLocation) /\ connectedCount = 0)
    ~> Disabled

\* C5: two application calls of ble_server::deinit in a row leave the same
\* observable session state (serverEnable, azimuth handler, radio) as one.
C5_DeinitIdempotent ==
  row.n = 2 => Observable(Session) = row.obs

\* two calls in a row, the first of which tore the session down
C5_Witness ==
  row.n = 2 /\ row.tore /\ Disabled

(***************************************************************************)
(* gps_impl.cpp: the sleep table and the selection in gps_event_handler.   *)
(* Distances are whole kilometres.                                         *)
(***************************************************************************)
SleepConfig(threshold, interval, powerEn) ==
  [distanceThreshold |-> threshold, sleepInterval |-> interval, gpsPowerEn |-> powerEn]

sleepConfigs ==
  << SleepConfig(10, 0, TRUE),
     SleepConfig(50, 5 * 60, FALSE),
     SleepConfig(100, 10 * 60, FALSE),
     SleepConfig(200, 15 * 60, FALSE) >>

sleepConfigSize == Len(sleepConfigs)

\* the distances fed to the handler: every tenth kilometre up to MaxDist, which
\* hits each threshold and each band, and values beside the smallest threshold
Distances == {d \in 0 .. MaxDist : d % 10 = 0} \cup {5, 9, 11}

\* a float that is either a number or NaN
Num(v) == [nan |-> FALSE, v |-> v]
NaN == [nan |-> TRUE, v |-> 0]

\* fmod(x, y): NaN when y is zero
fmod(x, y) == IF y = 0 THEN NaN ELSE Num(x % y)

\* a <= b on floats: false when a is NaN
FloatLeq_strict(a, b) == ~a.nan /\ a.v < b
FloatLeq(a, b) == ~a.nan /\ a.v <= b

\* for (i = sleepConfigSize - 1; i >= 0; i--) if (distance >= threshold[i]) ...
\* threshholdDistance starts at 0 and keeps it when no entry matches
RECURSIVE threshholdScan(_, _)
threshholdScan(distance, i) ==
  IF i < 1 THEN 0
  ELSE IF distance >= sleepConfigs[i].distanceThreshold
       THEN sleepConfigs[i].distanceThreshold
       ELSE threshholdScan(distance, i - 1)

threshholdDistance(distance) == threshholdScan(distance, sleepConfigSize)

modDistance(distance) == fmod(distance, threshholdDistance(distance))

\* for (i = 0; i < sleepConfigSize; i++) if (modDistance <= threshold[i]) ...
\* the index of the entry applied, 0 when the loop ends without one
RECURSIVE selectScan(_, _)
selectScan(m, i) ==
  IF i > sleepConfigSize THEN 0
  ELSE IF FloatLeq(m, sleepConfigs[i].distanceThreshold)
       THEN i
       ELSE selectScan(m, i + 1)

selectedConfig(distance) == selectScan(modDistance(distance), 1)

\* esp_timer_start_once(gpsSleepTimer, gpsSleepInterval * 1000000): the product
\* is a uint32_t.  It is kept in units of 64 us so that it fits TLC's 32-bit
\* integers: 1000000 = 15625 * 2^6, hence
\*   (interval * 1000000) mod 2^32 = 2^6 * ((interval * 15625) mod 2^26).
sleepTimeout64us_28bit(interval) == (interval * 15625) % (2 ^ 22)
sleepTimeout64us(interval) == (interval * 15625) % (2 ^ 26)

\* the level the gpsSleepTimer callback writes: digitalWrite(GPS_EN_PIN, LOW)
sleep_timer_level_high == "HIGH"
sleep_timer_level == "LOW"

\* the callback of gpsDisableTimer returns early: if (context->getDetectGPS())
disable_timer_skips_inverted(detected) == ~detected
disable_timer_skips(detected) == detected

\* the positions a fix can carry
FixLocations == {Loc(45, 90), Loc(44, 91)}

\* if (gpsParser->fix == 0) ... return;
fix_without_lock_never(fix) == FALSE
fix_without_lock(fix) == fix = 0

(***************************************************************************)
(* gps_event_handler, case GPS_UPDATE, with the parsed fix flag and        *)
(* position, and the distance that utils::complexDistance returns for the  *)
(* position and the spawn location.                                        *)
(***************************************************************************)
gps_event_handler(fix, location, distance) ==
  /\ nmeaHandler
  /\ detectGPS' = TRUE
  /\ evt' = [kind |-> "update", fix |-> fix, distance |-> distance]
  /\ fix = 0 => distance = 0   \* no distance is computed without a lock
  /\ IF fix_without_lock(fix)
     THEN UNCHANGED <<isGPSFixed, currentLocation, gpsSleepInterval, gpsEnPin,
                      sleepTimers, clockVars>>
     ELSE /\ isGPSFixed' = TRUE
          /\ currentLocation' = location
          /\ LET i == selectedConfig(distance) IN
             IF i = 0
             THEN UNCHANGED <<gpsSleepInterval, gpsEnPin, sleepTimers, clockVars>>
             ELSE /\ gpsSleepInterval' = sleepConfigs[i].sleepInterval
                  /\ IF sleepConfigs[i].gpsPowerEn
                     THEN /\ gpsEnPin' = "LOW"
                          /\ offDue' = 0
                          /\ UNCHANGED <<sleepTimers, sleepDue>>
                     ELSE /\ Len(sleepTimers) < MaxTimers
                          /\ gpsEnPin' = "HIGH"
                          /\ sleepTimers' =
                               Append(sleepTimers,
                                      [timeout_64us |->
                                         sleepTimeout64us(sleepConfigs[i].sleepInterval)])
                          /\ sleepDue' =
                               Append(sleepDue, sleepConfigs[i].sleepInterval)
                          /\ offDue' = sleepConfigs[i].sleepInterval
  /\ UNCHANGED <<nmeaHandler, dpc>>
  /\ UNCHANGED <<bleVars, azVars, cfgVars, timerVars>>

\* the callback of the k-th pending gpsSleepTimer
RemoveAt(seq, k) == SubSeq(seq, 1, k - 1) \o SubSeq(seq, k + 1, Len(seq))

sleep_timer_callback(k) ==
  /\ k \in 1 .. Len(sleepTimers)
  /\ gpsEnPin' = sleep_timer_level
  /\ sleepTimers' = RemoveAt(sleepTimers, k)
  /\ sleepDue' = RemoveAt(sleepDue, k)
  /\ evt' = [kind |-> "sleep_timer"]
  /\ UNCHANGED <<gpsSleepInterval, currentLocation, detectGPS, isGPSFixed,
                 nmeaHandler, dpc, offDue>>
  /\ UNCHANGED <<bleVars, azVars, cfgVars, timerVars>>

\* the callback of gpsDisableTimer: the detected check
disable_timer_check ==
  /\ dpc = "armed"
  /\ dpc' = IF disable_timer_skips(detectGPS) THEN "skipped" ELSE "disabling"
  /\ evt' = [kind |-> "disable_timer"]
  /\ UNCHANGED <<gpsEnPin, gpsSleepInterval, sleepTimers, currentLocation,
                 detectGPS, isGPSFixed, nmeaHandler>>
  /\ UNCHANGED <<bleVars, azVars, cfgVars, timerVars, clockVars>>

\* gps::disable called by the callback
disable_timer_disable ==
  /\ dpc = "disabling"
  /\ dpc' = "disabled"
  /\ nmeaHandler' = FALSE
  /\ gpsEnPin' = "HIGH"
  /\ evt' = [kind |-> "disable"]
  /\ UNCHANGED <<gpsSleepInterval, sleepTimers, currentLocation, detectGPS,
                 isGPSFixed>>
  /\ UNCHANGED <<bleVars, azVars, cfgVars, timerVars, clockVars>>

NextGps ==
  \/ \E fix \in {0, 1}, location \in FixLocations, distance \in Distances :
        gps_event_handler(fix, location, distance)
  \/ \E k \in 1 .. MaxTimers : sleep_timer_callback(k)
  \/ disable_timer_check
  \/ disable_timer_disable

\* the duty cycle is followed on a GPS model with a spawn location configured
InitGpsModel == Init /\ isGPSModel /\ spawnLocation = Loc(45, 90)

SpecGps == InitGpsModel /\ [][NextGps]_vars

\* the esp_timer service delivers every armed one-shot timer and runs its
\* callback to completion
LiveGps ==
  /\ SpecGps
  /\ WF_vars(\E k \in 1 .. MaxTimers : sleep_timer_callback(k))
  /\ WF_vars(disable_timer_check \/ disable_timer_disable)

(***************************************************************************)
(* Claims about the GPS duty cycle.                                        *)
(***************************************************************************)
TableIntervals == {sleepConfigs[i].sleepInterval : i \in 1 .. sleepConfigSize}
SmallestThreshold == sleepConfigs[1].distanceThreshold

\* the step is a run of gps_event_handler on a fix with a valid lock
ValidFixStep == evt'.kind = "update" /\ evt'.fix = 1

\* C6: once a valid fix has been processed, gpsSleepInterval is one of the
\* sleepInterval values of the table.
C6_IntervalInTable ==
  isGPSFixed => gpsSleepInterval \in TableIntervals

\* C7: a valid fix at a distance below the smallest threshold drives the
\* receiver on (GPS_EN_PIN LOW) and arms no sleep timer.
C7_SmallestBandPowersOn ==
  [][(ValidFixStep /\ evt'.distance < SmallestThreshold)
       => (gpsEnPin' = "LOW" /\ sleepTimers' = sleepTimers)]_vars

\* C8: after a valid fix whose table entry is power-enabled, the receiver is
\* on and no sleep timer armed by an earlier fix remains pending.
C8_PowerOnCancelsTimers ==
  [][(/\ ValidFixStep
      /\ selectedConfig(evt'.distance) # 0
      /\ sleepConfigs[selectedConfig(evt'.distance)].gpsPowerEn)
       => (gpsEnPin' = "LOW" /\ sleepTimers' = <<>>)]_vars

\* C9: a valid fix whose table entry is power-disabled powers the receiver
\* off and arms one one-shot timer for the entry's interval; the timer
\* callback powers the receiver on and touches nothing else; and with timers
\* delivered, a receiver powered off by a fix is eventually powered on.
PowerOffFix(e) ==
  /\ e.kind = "update" /\ e.fix = 1
  /\ selectedConfig(e.distance) # 0
  /\ ~sleepConfigs[selectedConfig(e.distance)].gpsPowerEn

C9_SleepThenWake ==
  /\ [][(ValidFixStep /\ PowerOffFix(evt'))
          => (/\ gpsEnPin' = "HIGH"
              /\ gpsSleepInterval' = sleepConfigs[selectedConfig(evt'.distance)].sleepInterval
              /\ sleepTimers' = Append(sleepTimers,
                                       [timeout_64us |-> gpsSleepInterval' * 15625]))]_vars
  /\ [][(evt'.kind = "sleep_timer")
          => (/\ gpsEnPin' = "LOW"
              /\ Len(sleepTimers') = Len(sleepTimers) - 1
              /\ UNCHANGED <<gpsSleepInterval, detectGPS, isGPSFixed, nmeaHandler, dpc>>)]_vars
  /\ (PowerOffFix(evt) /\ gpsEnPin = "HIGH") ~> (gpsEnPin = "LOW")

\* a sleep timer armed by a power-off fix has fired and powered the receiver on
C9_Witness ==
  evt.kind = "sleep_timer" /\ gpsEnPin = "LOW" /\ isGPSFixed /\ gpsSleepInterval > 0

\* C10: when the detect timer expires with the detected flag false, the
\* callback goes on to gps::disable, which powers the receiver down and
\* removes the NMEA handler; with the flag true (set by any GPS_UPDATE, with
\* or without a lock) it returns and leaves power pin and handler unchanged.
C10_DetectTimeout ==
  [][/\ (dpc = "armed" /\ dpc' # "armed")
          => IF detectGPS
             THEN dpc' = "skipped" /\ gpsEnPin' = gpsEnPin /\ nmeaHandler' = nmeaHandler
             ELSE dpc' = "disabling"
     /\ (dpc = "disabling" /\ dpc' # "disabling")
          => (dpc' = "disabled" /\ gpsEnPin' = "HIGH" /\ ~nmeaHandler')]_vars

\* the detect timer expired with nothing received and the receiver was shut down
C10_Witness ==
  dpc = "disabled" /\ ~detectGPS /\ gpsEnPin = "HIGH" /\ ~nmeaHandler

\* the detect timer expired after an update without a lock and left the receiver on
C10_WitnessDetected ==
  dpc = "skipped" /\ detectGPS /\ ~isGPSFixed /\ gpsEnPin = "LOW" /\ nmeaHandler

\* C11: once the detect-timeout callback has powered the receiver down it
\* stays down: no later callback or event drives GPS_EN_PIN LOW again.
C11_DisableIrreversible ==
  dpc = "disabled" => gpsEnPin = "HIGH"

\* C12: a GPS_UPDATE without a lock (fix == 0) sets the detected flag and
\* leaves current location, GPS-fixed flag, gpsSleepInterval, the power pin
\* and the pending sleep timers unchanged.
C12_NoLockFrame ==
  [][(evt'.kind = "update" /\ evt'.fix = 0)
       => (/\ detectGPS'
           /\ UNCHANGED <<currentLocation, isGPSFixed, gpsSleepInterval,
                          gpsEnPin, sleepTimers>>)]_vars

\* an update without a lock handled while the receiver sleeps on a timer
C12_Witness ==
  /\ evt.kind = "update" /\ evt.fix = 0 /\ detectGPS
  /\ gpsEnPin = "HIGH" /\ sleepTimers # <<>> /\ currentLocation # Loc(0, 0)

\* the reference selection of the sleep policy, stated on the table
Thresholds == {sleepConfigs[i].distanceThreshold : i \in 1 .. sleepConfigSize}
RefBand(d) ==
  CHOOSE t \in Thresholds : t <= d /\ \A u \in Thresholds : u <= d => u <= t
RefResidual(d) == d % RefBand(d)
RefIndex(d) ==
  CHOOSE i \in 1 .. sleepConfigSize :
    /\ sleepConfigs[i].distanceThreshold >= RefResidual(d)
    /\ \A j \in 1 .. (i - 1) : sleepConfigs[j].distanceThreshold < RefResidual(d)

rate_limited_short(t, last) == t - last < 100
rate_limited(t, last) == t - last < 1000

BusEventTypes == {"AZIMUTH", "SENSOR_CALIBRATE"}

ble_azimuth_dispatcher(type) ==
  /\ azimuthHandler
  /\ IF rate_limited(now, last_update)
     THEN /\ busEvt' = [type |-> type, notified |-> FALSE, seq |-> 1 - busEvt.seq]
          /\ UNCHANGED <<last_update, lastNotifyAt>>
     ELSE /\ last_update' = now
          /\ IF type = "AZIMUTH" /\ connectedCount > 0
             THEN /\ busEvt' = [type |-> type, notified |-> TRUE, seq |-> 1 - busEvt.seq]
                  /\ lastNotifyAt' = now
             ELSE /\ busEvt' = [type |-> type, notified |-> FALSE, seq |-> 1 - busEvt.seq]
                  /\ UNCHANGED lastNotifyAt
  /\ UNCHANGED now
  /\ UNCHANGED <<bleVars, gpsVars, cfgVars, timerVars, clockVars>>

\* time passes
Delays == {100, 999, 1000, 1500}

Tick(dt) ==
  /\ now + dt <= MaxMillis
  /\ now' = now + dt
  /\ UNCHANGED <<last_update, lastNotifyAt, busEvt>>
  /\ UNCHANGED <<bleVars, gpsVars, cfgVars, timerVars, clockVars>>

NextAz ==
  \/ \E type \in BusEventTypes : ble_azimuth_dispatcher(type)
  \/ \E dt \in Delays : Tick(dt)
  \/ onConnect
  \/ onDisconnect

InitAzimuth == Init /\ ~isGPSModel /\ spawnLocation = Loc(45, 90)

SpecAz == InitAzimuth /\ [][NextAz]_vars

(***************************************************************************)
(* Claims about the azimuth notification.                                  *)
(***************************************************************************)
\* the step is a dispatch of a bus event
DispatchStep == busEvt'.seq # busEvt.seq

\* C13: two outbound azimuth notifications are never less than 1000 ms
\* apart, and an event dispatched inside the window is dropped: it sends
\* nothing, leaves no trace in the dispatcher, and only the dispatch of an
\* azimuth event outside the window sends a notification.
C13_RateLimit ==
  [][/\ (DispatchStep /\ busEvt'.notified /\ lastNotifyAt # -1)
          => now' - lastNotifyAt >= 1000
     /\ (DispatchStep /\ now - last_update < 1000)
          => (~busEvt'.notified /\ UNCHANGED <<last_update, lastNotifyAt>>)
     /\ (lastNotifyAt' # lastNotifyAt)
          => (DispatchStep /\ busEvt'.type = "AZIMUTH" /\ busEvt'.notified)]_vars

\* a second notification has been sent, after an event was dropped in between
C13_Witness ==
  /\ busEvt.notified /\ lastNotifyAt >= 3000 /\ last_update = lastNotifyAt

\* C14: with a peer connected, an azimuth event dispatched at least 1000 ms
\* after the previous outbound notification, or before any notification,
\* produces an outbound notification.
C14_NotifyAfterWindow ==
  [][(/\ DispatchStep /\ busEvt'.type = "AZIMUTH"
      /\ connectedCount > 0
      /\ (lastNotifyAt = -1 \/ now - lastNotifyAt >= 1000))
       => busEvt'.notified]_vars

(***************************************************************************)
(* CharacteristicCallbacks::onWrite.  Every write below is made by a       *)
(* connected peer.                                                         *)
(***************************************************************************)
\* all sequences over `chars` of length at most n
RECURSIVE SeqsUpTo(_, _)
SeqsUpTo(chars, n) ==
  IF n = 0 THEN {<<>>}
  ELSE LET shorter == SeqsUpTo(chars, n - 1) IN
       shorter \cup {Append(q, c) : q \in shorter, c \in chars}

\* ---- color characteristic ----
HexDigit == [a |-> 10, b |-> 11]
ColorChars == {"a", "b", "g"}
IsHexDigit(c) == c \in DOMAIN HexDigit

\* strtol(str, &endptr, 16): the number of characters consumed
RECURSIVE strtol_end(_)
strtol_end(str) ==
  IF str = <<>> \/ ~IsHexDigit(Head(str)) THEN 0 ELSE 1 + strtol_end(Tail(str))

\* strtol(str, &endptr, 16): the value of the consumed prefix
RECURSIVE strtol_acc(_, _)
strtol_acc(str, acc) ==
  IF str = <<>> \/ ~IsHexDigit(Head(str)) THEN acc
  ELSE strtol_acc(Tail(str), acc * 16 + HexDigit[Head(str)])
strtol(str) == strtol_acc(str, 0)

\* the vectors utils::split(value, ",") hands to the handler
ColorTokens == SeqsUpTo(ColorChars, MaxTokenLen)
ColorPayloads == SeqsUpTo(ColorTokens, MaxTokens)

ConnectedPeer == radioUp /\ connectedCount > 0

onWrite_color(colors) ==
  /\ ConnectedPeer
  /\ lastWrite' = [chr |-> "color", colors |-> colors]
  /\ IF Len(colors) = 1
     THEN \* if (endptr == colors[0].c_str() + 1) color.southColor = southColor;
          \* preference::savePointerColor(color);
          /\ savedColor' = IF strtol_end(colors[1]) = 1
                           THEN [color EXCEPT !.southColor = strtol(colors[1])]
                           ELSE color
          /\ UNCHANGED color
     ELSE IF Len(colors) >= 2
     THEN LET south == IF strtol_end(colors[1]) = 0
                       THEN color.southColor ELSE strtol(colors[1])
              spawn == IF strtol_end(colors[2]) = 0
                       THEN color.spawnColor ELSE strtol(colors[2])
          IN /\ savedColor' = PointerColor(south, spawn)
             /\ color' = PointerColor(south, spawn)
     ELSE UNCHANGED <<color, savedColor>>
  /\ UNCHANGED <<brightness, savedBrightness, pixelBrightness, serverMode,
                 savedServerMode>>
  /\ UNCHANGED <<bleVars, gpsVars, azVars, timerVars, clockVars>>

\* ---- spawn characteristic, from the payload ----
SpawnChars == {"1", "2", ",", "x"}
Digit == [c \in {"1", "2"} |-> IF c = "1" THEN 1 ELSE 2]
IsDigit(c) == c \in DOMAIN Digit
SpawnPayloads == SeqsUpTo(SpawnChars, MaxPayloadLen)

\* value.find(','): the index of the first comma, 0 for npos
RECURSIVE find_comma(_, _)
find_comma(value, i) ==
  IF i > Len(value) THEN 0
  ELSE IF value[i] = "," THEN i ELSE find_comma(value, i + 1)

\* std::stof(str) throws std::invalid_argument
stof_throws(str) == str = <<>> \/ ~IsDigit(Head(str))

\* std::stof(str): the value of the leading number
RECURSIVE stof_acc(_, _)
stof_acc(str, acc) ==
  IF str = <<>> \/ ~IsDigit(Head(str)) THEN acc
  ELSE stof_acc(Tail(str), acc * 10 + Digit[Head(str)])
stof(str) == stof_acc(str, 0)

\* the outcome of the parse: parseSuccess and the two floats
spawn_parse_partial(value) ==
  LET commaIndex == find_comma(value, 1)
      latitudeStr == SubSeq(value, 1, commaIndex - 1)
      longitudeStr == SubSeq(value, commaIndex + 1, Len(value))
  IN IF commaIndex = 0
     THEN [parseSuccess |-> FALSE, latitude |-> 0, longitude |-> 0]
     ELSE [parseSuccess |-> ~stof_throws(latitudeStr),
           latitude |-> stof(latitudeStr), longitude |-> stof(longitudeStr)]
spawn_parse(value) ==
  LET commaIndex == find_comma(value, 1)
      latitudeStr == SubSeq(value, 1, commaIndex - 1)
      longitudeStr == SubSeq(value, commaIndex + 1, Len(value))
  IN IF commaIndex = 0
     THEN [parseSuccess |-> FALSE, latitude |-> 0, longitude |-> 0]
     ELSE IF stof_throws(longitudeStr) \/ stof_throws(latitudeStr)
     THEN [parseSuccess |-> FALSE, latitude |-> 0, longitude |-> 0]
     ELSE [parseSuccess |-> TRUE,
           latitude |-> stof(latitudeStr), longitude |-> stof(longitudeStr)]

onWrite_spawn_payload(value) ==
  /\ ConnectedPeer
  /\ lastWrite' = [chr |-> "spawn", value |-> value]
  /\ LET parsed == spawn_parse(value) IN
     IF parsed.parseSuccess
     THEN /\ savedSpawnLocation' = Loc(parsed.latitude, parsed.longitude)
          /\ spawnLocation' = Loc(parsed.latitude, parsed.longitude)
     ELSE UNCHANGED <<savedSpawnLocation, spawnLocation>>
  /\ UNCHANGED <<serverEnable, clientConnected, connectedCount, azimuthHandler,
                 radioUp, advertising, tpc, mpc, isGPSModel, connectSinceFire, row>>
  /\ UNCHANGED <<color, savedColor, brightness, savedBrightness, pixelBrightness,
                 serverMode, savedServerMode>>
  /\ UNCHANGED <<gpsVars, azVars, timerVars, clockVars>>

\* ---- brightness and server-mode characteristics ----
Bytes == {0, 1, 2, 255}
BytePayloads == SeqsUpTo(Bytes, MaxBytes)

\* value[0] of a std::string: the terminating '\0' when the string is empty
first_byte(value) == IF value = <<>> THEN 0 ELSE value[1]

\* if (value.length() == 1)
brightness_accepts_any(value) == Len(value) >= 1
brightness_accepts(value) == Len(value) = 1

onWrite_brightness(value) ==
  /\ ConnectedPeer
  /\ lastWrite' = [chr |-> "brightness", value |-> value]
  /\ IF brightness_accepts(value)
     THEN /\ savedBrightness' = first_byte(value) % 256
          /\ brightness' = first_byte(value) % 256
          /\ pixelBrightness' = first_byte(value) % 256
     ELSE UNCHANGED <<savedBrightness, brightness, pixelBrightness>>
  /\ UNCHANGED <<color, savedColor, serverMode, savedServerMode>>
  /\ UNCHANGED <<bleVars, gpsVars, azVars, timerVars, clockVars>>

onWrite_serverMode(value) ==
  /\ ConnectedPeer
  /\ lastWrite' = [chr |-> "serverMode", value |-> value]
  /\ IF first_byte(value) = 0
     THEN savedServerMode' = "WIFI" /\ serverMode' = "WIFI"
     ELSE IF first_byte(value) = 1
     THEN savedServerMode' = "BLE" /\ serverMode' = "BLE"
     ELSE UNCHANGED <<savedServerMode, serverMode>>
  /\ UNCHANGED <<color, savedColor, brightness, savedBrightness, pixelBrightness>>
  /\ UNCHANGED <<bleVars, gpsVars, azVars, timerVars, clockVars>>

\* the state once a first peer has connected
InitConnected ==
  /\ InitGps /\ InitAz /\ InitCfg
  /\ serverEnable = TRUE
  /\ clientConnected = TRUE
  /\ connectedCount = 1
  /\ azimuthHandler = TRUE
  /\ radioUp = TRUE
  /\ advertising = TRUE
  /\ tpc = "armed"
  /\ mpc = "idle"
  /\ isGPSModel = TRUE
  /\ spawnLocation = Loc(0, 0)
  /\ savedSpawnLocation = spawnLocation
  /\ connectSinceFire = FALSE
  /\ row = NoRow
  /\ fireCount = 0

NextColor == \E colors \in ColorPayloads : onWrite_color(colors)
SpecColor == InitConnected /\ [][NextColor]_vars

NextSpawnWrite == \E value \in SpawnPayloads : onWrite_spawn_payload(value)
SpecSpawnWrite == InitConnected /\ [][NextSpawnWrite]_vars

NextByteWrite ==
  \/ \E value \in BytePayloads : onWrite_brightness(value)
  \/ \E value \in BytePayloads : onWrite_serverMode(value)
SpecByteWrite == InitConnected /\ [][NextByteWrite]_vars

(***************************************************************************)
(* Claims about the idle-shutdown timer.                                   *)
(***************************************************************************)
\* the callback has started (it is past the point where the timer was armed)
TimerFired == tpc # "armed"

\* C20: the idle-shutdown timer is armed once, by ble_server::init, and its
\* callback runs at most once: once the callback has started, no step
\* (connect, disconnect, write, skipped shutdown, deinit) arms the timer
\* again, and the callback never runs a second time.
C20_TimerOneShot ==
  [][/\ TimerFired => TimerFired'
     /\ fireCount' <= 1
     /\ fireCount' # fireCount => (~TimerFired /\ TimerFired')]_vars

\* the callback ran with a peer connected and skipped the shutdown; the peer
\* has disconnected since and the timer is not armed
C20_Witness ==
  /\ tpc = "skip_connected"
  /\ fireCount = 1
  /\ connectedCount = 0
  /\ clientConnected
  /\ radioUp

(***************************************************************************)
(* Claims about the characteristic writes.                                 *)
(***************************************************************************)
\* a token that is a hex number from its first to its last character
IsHexToken(token) == token # <<>> /\ strtol_end(token) = Len(token)

\* C15: after a color write of one hex token h the context color has
\* southColor = value(h) and spawnColor unchanged; after a write of two hex
\* tokens h1,h2 it has southColor = value(h1) and spawnColor = value(h2).
C15_ColorRoundTrip ==
  [][(/\ lastWrite'.chr = "color"
      /\ \A i \in DOMAIN lastWrite'.colors : IsHexToken(lastWrite'.colors[i]))
     => LET colors == lastWrite'.colors IN
        /\ Len(colors) = 1 =>
             color' = [color EXCEPT !.southColor = strtol(colors[1])]
        /\ Len(colors) = 2 =>
             color' = PointerColor(strtol(colors[1]), strtol(colors[2]))]_vars

\* the first and second field of a "lat,lon" payload
HasComma(value) == \E i \in DOMAIN value : value[i] = ","
FirstComma(value) ==
  CHOOSE i \in DOMAIN value :
    value[i] = "," /\ \A j \in 1 .. i - 1 : value[j] # ","
FirstField(value) == SubSeq(value, 1, FirstComma(value) - 1)
SecondField(value) == SubSeq(value, FirstComma(value) + 1, Len(value))
ParsesAsNumber(str) == str # <<>> /\ Head(str) \in {"1", "2"}

\* C16: a spawn-location write is all-or-nothing: with a comma and two
\* fields that parse as numbers, the persisted and the context spawn
\* location both become (latitude = first field, longitude = second field);
\* with no comma or a field that does not parse, both are unchanged.
C16_SpawnAllOrNothing ==
  [][lastWrite'.chr = "spawn"
     => LET value == lastWrite'.value IN
        IF /\ HasComma(value)
           /\ ParsesAsNumber(FirstField(value))
           /\ ParsesAsNumber(SecondField(value))
        THEN /\ spawnLocation' =
                  Loc(stof(FirstField(value)), stof(SecondField(value)))
             /\ savedSpawnLocation' = spawnLocation'
        ELSE UNCHANGED <<spawnLocation, savedSpawnLocation>>]_vars

\* a write was rejected because its longitude does not parse, after a write
\* that stored latitude 1 and longitude 2
C16_Witness ==
  /\ lastWrite.chr = "spawn"
  /\ HasComma(lastWrite.value)
  /\ ParsesAsNumber(FirstField(lastWrite.value))
  /\ ~ParsesAsNumber(SecondField(lastWrite.value))
  /\ spawnLocation = Loc(1, 2)
  /\ savedSpawnLocation = Loc(1, 2)

\* C17: a brightness write of exactly one byte b sets the persisted, the
\* context and the pixel driver brightness to b; a payload of any other
\* length changes none of them.
C17_BrightnessOneByte ==
  [][lastWrite'.chr = "brightness"
     => IF Len(lastWrite'.value) = 1
        THEN /\ savedBrightness' = lastWrite'.value[1]
             /\ brightness' = lastWrite'.value[1]
             /\ pixelBrightness' = lastWrite'.value[1]
        ELSE UNCHANGED <<savedBrightness, brightness, pixelBrightness>>]_vars

\* a two-byte write was rejected after a write of the byte 255
C17_Witness ==
  /\ lastWrite.chr = "brightness"
  /\ Len(lastWrite.value) = 2
  /\ savedBrightness = 255
  /\ brightness = 255
  /\ pixelBrightness = 255

\* C18: a server-mode write of the single byte 0 selects WIFI and of the
\* single byte 1 selects BLE, persisted and in the context; every other
\* payload, the empty one included, leaves both unchanged.
C18_ServerModeWrite ==
  [][lastWrite'.chr = "serverMode"
     => LET value == lastWrite'.value IN
        IF value = <<0>>
        THEN serverMode' = "WIFI" /\ savedServerMode' = "WIFI"
        ELSE IF value = <<1>>
        THEN serverMode' = "BLE" /\ savedServerMode' = "BLE"
        ELSE UNCHANGED <<serverMode, savedServerMode>>]_vars

\* C21: after any sequence of completed characteristic writes the
\* configuration held in the context equals the configuration last
\* persisted through the preference store, field by field.
C21_ContextEqualsPersisted ==
  /\ spawnLocation = savedSpawnLocation
  /\ color = savedColor
  /\ brightness = savedBrightness
  /\ serverMode = savedServerMode

(***************************************************************************)
(* The duty cycle against the esp_timer clock, in seconds.                 *)
(***************************************************************************)
\* a one-shot timer runs its callback when its timeout has elapsed
sleep_timer_expire ==
  \E k \in 1 .. MaxTimers :
    /\ k \in 1 .. Len(sleepDue)
    /\ sleepDue[k] = 0
    /\ sleep_timer_callback(k)

ElapseSteps == {100, 200, 300}

\* dt seconds pass; no pending timer is passed over
Elapse(dt) ==
  /\ sleepTimers # <<>>
  /\ \A k \in 1 .. Len(sleepDue) : sleepDue[k] >= dt
  /\ sleepDue' = [k \in 1 .. Len(sleepDue) |-> sleepDue[k] - dt]
  /\ offDue' = IF offDue >= dt THEN offDue - dt ELSE 0
  /\ evt' = [kind |-> "elapse"]
  /\ UNCHANGED <<gpsEnPin, gpsSleepInterval, sleepTimers, currentLocation,
                 detectGPS, isGPSFixed, nmeaHandler, dpc>>
  /\ UNCHANGED <<bleVars, azVars, cfgVars, timerVars>>

NextSleep ==
  \/ \E fix \in {0, 1}, location \in FixLocations, distance \in Distances :
        gps_event_handler(fix, location, distance)
  \/ sleep_timer_expire
  \/ \E dt \in ElapseSteps : Elapse(dt)

SpecSleep == InitGpsModel /\ [][NextSleep]_vars

\* C22: once a valid fix has powered the receiver off and armed a sleep timer
\* for interval T, the receiver stays off until T has elapsed or a later fix
\* yields a power-enabled directive: no sleep timer of an earlier fix powers
\* the receiver on before that.
C22_OneEffectiveTimer ==
  [][(gpsEnPin = "HIGH" /\ gpsEnPin' = "LOW")
       => \/ offDue = 0
          \/ (ValidFixStep /\ selectedConfig(evt'.distance) # 0
                /\ sleepConfigs[selectedConfig(evt'.distance)].gpsPowerEn)]_vars

\* C24: for every value gpsSleepInterval holds when a sleep timer is armed,
\* gpsSleepInterval * 1000000 in 32-bit unsigned arithmetic does not wrap, so
\* the armed duration is the selected table interval in seconds.
C24_TimeoutNoWrap ==
  [][Len(sleepTimers') > Len(sleepTimers)
       => /\ gpsSleepInterval' \in TableIntervals
          /\ gpsSleepInterval' * 15625 < 2 ^ 26
          /\ sleepTimers'[Len(sleepTimers')].timeout_64us = gpsSleepInterval' * 15625
          /\ sleepDue'[Len(sleepDue')] = gpsSleepInterval']_vars

\* a timer was armed for the largest interval of the table, 900 s
C24_Witness ==
  /\ sleepTimers # <<>>
  /\ sleepTimers[Len(sleepTimers)].timeout_64us = 900 * 15625
  /\ gpsSleepInterval = 15 * 60
  /\ gpsEnPin = "HIGH"

\* C23: in every reachable state where the session is Disabled no peer is
\* connected, so neither the advertising restart of onDisconnect nor the
\* dispatcher's use of the server can follow the teardown of the radio.
C23_DisabledHasNoPeer ==
  Disabled => connectedCount = 0

====
